---- MODULE Spec2Model ----
(***************************************************************************)
(* Lattice protein folding (HP model): the chain data model of             *)
(* codefiles/classes and the fold algorithms of codefiles/algorithms.      *)
(* Residues are addressed by their index in the chain (0-based, as in      *)
(* Protein._list); a position is a triple <<x, y, z>>; the occupancy grid  *)
(* (Protein._grid) is a function from the occupied positions to residue    *)
(* indices.                                                                *)
(***************************************************************************)
EXTENDS Integers, Sequences, FiniteSets, TLC

VARIABLES
    sequence,         \* Protein._sequence: [0..n-1 -> {"H","P","C"}]
    dimensions,       \* the fold algorithm's dimensions argument
    position,         \* Aminoacid.position of every residue: [0..n-1 -> triple]
    grid,             \* Protein._grid: [occupied positions -> residue index]
    pc,               \* control point of the running algorithm
    acid_index,       \* RandomFold.backtracking: acid_index (acid is residue acid_index)
    directions,       \* RandomFold.backtracking: directions still to try
    protein_path,     \* RandomFold.backtracking: protein_path
    random_direction, \* RandomFold.backtracking: last direction drawn
    backtrack_count,  \* RandomFold.backtracking: backtrack_count
    max_backtracking, \* RandomFold.backtracking: the max_backtracking argument of the current call
    _score,           \* Protein._score: the sum get_score accumulated (before the halving)
    returned,         \* the value the last call returned (None before any call)
    iterations,       \* HillclimberFold._iterations
    iteration,        \* HillclimberFold.run: experiments finished so far
    hs_position,      \* residue positions of the chain _highscore[0]
    hs_grid,          \* grid of the chain _highscore[0]
    hs_score,         \* _highscore[1]
    hs_alias,         \* run()'s local protein is the very object _highscore[0]
    snippet_start,    \* _run_experiment: start_position of the last snippet
    snippet_length,   \* _run_experiment: length of the last snippet
    changed_position, \* _run_experiment: residue positions of changed_protein
    changed_grid,     \* _run_experiment: grid of changed_protein
    count,            \* _run_experiment: count of refold retries
    temperature,      \* AnnealingFold._temperature
    random_draw,      \* numerator of the value random.random() yields next, over DrawDen
    depth,            \* BfsFold.__bfsfold: depth of the window loop
    min_keys,         \* BfsFold.__bfsfold: min_keys
    create_d,         \* BfsFold.__bfsfold: the score dict of the last window
    first_coordinate, \* BfsFold.get_possible_foldings: first_coordinate
    last_coordinate,  \* BfsFold.get_possible_foldings: last_coordinate
    unique_moves,     \* Bfs_randomFold._bfsfold: unique_moves
    posit,            \* Bfs_randomFold._bfsfold: posit
    algorithm,        \* the fold algorithm class under construction
    vc_prev,          \* BfsFold.__valid_combinations: prev
    vc_length,        \* BfsFold.__valid_combinations: length
    vc_it,            \* BfsFold.__valid_combinations: it
    movement_index,   \* SpiralFold.run: movement_index
    _steps,           \* SpiralFold._steps
    sp_current        \* SpiralFold.run: index of the residue current (None past the tail)

protVars == <<sequence, dimensions, position, grid>>
randVars == <<acid_index, directions, protein_path, random_direction, backtrack_count,
              max_backtracking>>
callVars == <<_score, returned>>
hillVars == <<iterations, iteration, hs_position, hs_grid, hs_score, hs_alias,
              snippet_start, snippet_length, changed_position, changed_grid, count>>
annealVars == <<temperature, random_draw>>
bfsVars == <<depth, min_keys, create_d, first_coordinate, last_coordinate>>
beamVars == <<unique_moves, posit>>
ctorVars == <<algorithm>>
comboVars == <<vc_prev, vc_length, vc_it>>
spiralVars == <<movement_index, _steps, sp_current>>
vars == <<protVars, pc, randVars, callVars, hillVars, annealVars, bfsVars, beamVars,
          ctorVars, comboVars, spiralVars>>

----------------------------------------------------------------------------
(* Bounds of the model *)

\* longest chain folded by RandomFold in 2D (a 2D walk can trap itself from 8 residues on)
RandLen2D == 9
\* longest chain folded by RandomFold in 3D
RandLen3D == 4
\* longest chain whose grid and positions are driven directly
ProtLen == 3
\* longest chain that is scored
ScoreLen == 4
\* longest chain the hillclimber runs experiments on (2D)
HillLen == 3
\* the largest iterations argument of the hillclimber
HillIterations == 1
\* longest candidate chain handed to the annealing acceptance test
AnnealLen == 4
\* the largest (whole) temperature of the annealing acceptance test
AnnealTemp == 3
\* the recorded scores of the annealing acceptance test are -OldScoreRange .. 0
OldScoreRange == 2
\* random.random() yields 0/DrawDen, 1/DrawDen, ..., (DrawDen-1)/DrawDen
DrawDen == 4
\* longest chain BfsFold.run() is called on
BfsLen == 7
\* longest chain get_possible_foldings is called on
FoldLen == 5
\* longest direction string in the score dict of a first window (2D; one less in 3D)
BeamLen == 2
\* the most direction strings one window's score dict holds
BeamDict == 2
\* longest chain Bfs_randomFold._bfsfold is called on (2D; two less in 3D)
BeamChain == 8
\* the dimensions arguments handed to the constructors are 0 .. CtorDims
CtorDims == 4
\* longest chain handed to the constructors
CtorLen == 2
\* longest chain get_folding is called on
FoldingLen == 3
WalkLen == 4
DeepLen == 14
DeepMaxBacktracking == 1
ComboLen == 4
RefoldLen == 4
SpiralLen == 24
StaleLen == 3

----------------------------------------------------------------------------
(* Lattice helpers *)

Origin == <<0, 0, 0>>
None == <<>>

Add(p, d) == <<p[1] + d[1], p[2] + d[2], p[3] + d[3]>>
Sub(p, q) == <<p[1] - q[1], p[2] - q[2], p[3] - q[3]>>
Neg(d) == <<0 - d[1], 0 - d[2], 0 - d[3]>>
Abs(x) == IF x < 0 THEN 0 - x ELSE x
\* a bond distance that forgets the z axis
ManhattanXY(p, q) == Abs(p[1] - q[1]) + Abs(p[2] - q[2])
Manhattan(p, q) == Abs(p[1] - q[1]) + Abs(p[2] - q[2]) + Abs(p[3] - q[3])

Len0(f) == Cardinality(DOMAIN f)

\* the six unit moves, in the order of get_score's adjacent_positions
adjacent_positions ==
    <<(<<1, 0, 0>>), (<<-1, 0, 0>>), (<<0, 1, 0>>), (<<0, -1, 0>>), (<<0, 0, 1>>), (<<0, 0, -1>>)>>

----------------------------------------------------------------------------
(* Aminoacid *)

Types == {"H", "P", "C"}

\* a score that looks for H on one side only
get_stability_score_self(self_type, other_type) ==
    IF self_type = "P" \/ other_type = "P" THEN 0
    ELSE IF self_type = "H" THEN -1
    ELSE IF self_type = "C" THEN -5
    ELSE 0
\* a table that rewards an H-H contact
C30_ScoreRewardsHH(self_type, other_type) ==
    IF self_type = "H" /\ other_type = "H" THEN 1 ELSE 0
get_stability_score(self_type, other_type) ==
    IF self_type = "P" \/ other_type = "P" THEN 0
    ELSE IF self_type = "H" \/ other_type = "H" THEN -1
    ELSE IF self_type = "C" THEN -5
    ELSE 0

----------------------------------------------------------------------------
(* Protein *)

\* the chain as built by Protein.__init__: every residue at (0,0,0), empty grid
FreshPosition(seq) == [i \in DOMAIN seq |-> Origin]
EmptyGrid == [p \in {} |-> 0]

is_valid_fold(g, p) == p \notin DOMAIN g

add_to_grid(g, p, acid) == [q \in (DOMAIN g) \cup {p} |-> IF q = p THEN acid ELSE g[q]]

remove_from_grid(g, p) == [q \in (DOMAIN g) \ {p} |-> g[q]]

\* a reset whose walk stops in front of the tail residue
C29_ResetSkipsTail(pos) ==
    [q \in {pos[i] : i \in (DOMAIN pos) \ {Len0(pos) - 1}} |->
        CHOOSE i \in DOMAIN pos : pos[i] = q]

\* the grid is cleared and the residues are written head to tail, so the last
\* residue at a position owns its entry
reset_grid(pos) ==
    [q \in {pos[i] : i \in DOMAIN pos} |->
        CHOOSE i \in DOMAIN pos : pos[i] = q /\ \A j \in DOMAIN pos : pos[j] = q => j <= i]

\* is_valid's walk from residue i: the bond at which it stops and what it returns
RECURSIVE IsValidWalk(_, _, _)
IsValidWalk(pos, g, i) ==
    IF i + 1 \notin DOMAIN pos
    THEN [result |-> Cardinality(DOMAIN g) = Len0(pos), stop |-> i]
    ELSE IF Manhattan(pos[i], pos[i + 1]) # 1
         THEN [result |-> FALSE, stop |-> i]
         ELSE IsValidWalk(pos, g, i + 1)

is_valid(pos, g) == IsValidWalk(pos, g, 0).result

\* connections that forget the link
ConnectionsPredecessorOnly(pos, i) == {pos[j] : j \in {i - 1} \cap DOMAIN pos}
\* positions of the residues bonded to residue i (predecessor and link)
Connections(pos, i) == {pos[j] : j \in {i - 1, i + 1} \cap DOMAIN pos}

\* what one neighbouring cell of residue i adds to Protein._score
Contribution(seq, pos, g, i, adj) ==
    LET pos_tuple == Add(pos[i], adj)
    IN  IF pos_tuple \notin Connections(pos, i) /\ pos_tuple \in DOMAIN g
        THEN get_stability_score(seq[i], seq[g[pos_tuple]])
        ELSE 0

AcidScore(seq, pos, g, i) ==
    Contribution(seq, pos, g, i, adjacent_positions[1])
    + Contribution(seq, pos, g, i, adjacent_positions[2])
    + Contribution(seq, pos, g, i, adjacent_positions[3])
    + Contribution(seq, pos, g, i, adjacent_positions[4])
    + Contribution(seq, pos, g, i, adjacent_positions[5])
    + Contribution(seq, pos, g, i, adjacent_positions[6])

\* Protein._score accumulated over residues i, i+1, ... before the halving
RECURSIVE ScoreFrom(_, _, _, _)
ScoreFrom(seq, pos, g, i) ==
    IF i \notin DOMAIN pos THEN 0
    ELSE AcidScore(seq, pos, g, i) + ScoreFrom(seq, pos, g, i + 1)

get_score(seq, pos, g) == ScoreFrom(seq, pos, g, 0) \div 2

----------------------------------------------------------------------------
(* RandomFold *)

_get_directions(dims) ==
    IF dims = 2 THEN {<<1, 0, 0>>, <<-1, 0, 0>>, <<0, 1, 0>>, <<0, -1, 0>>}
    ELSE IF dims = 3 THEN {<<1, 0, 0>>, <<-1, 0, 0>>, <<0, 1, 0>>, <<0, -1, 0>>,
                           <<0, 0, 1>>, <<0, 0, -1>>}
    ELSE {}

\* Python list indexing: a negative index counts from the end
PathAt(path, k) == path[IF k < 0 THEN k + Len0(path) ELSE k]

\* the first lines of backtracking(): the head goes into the grid, the path is
\* allocated, every direction is open and the loop starts at residue 1
BacktrackingEntry(pos, g) ==
    [grid |-> add_to_grid(g, pos[0], 0),
     protein_path |-> [i \in DOMAIN pos |-> IF i = 0 THEN pos[0] ELSE Origin]]

\* directions of the current list that lead to a free position
FreeDirections ==
    {d \in directions : is_valid_fold(grid, Add(position[acid_index - 1], d))}

\* the residue whose grid entry a backtrack step removes
BacktrackRemoved(pos, idx) == pos[idx]

\* the default of backtracking()'s max_backtracking argument
DefaultMaxBacktracking == 5000

\* max_backtracking of the outermost call: the default (as run() calls it) or 0
MaxBacktrackingArgs == {0, DefaultMaxBacktracking}

RandomSequences ==
    {[i \in 0..(n - 1) |-> "H"] : n \in 1..RandLen2D}

\* Protein.__init__: no score yet, nothing returned
IdleCalls ==
    /\ _score = 0
    /\ returned = None

\* no RandomFold is running
IdleRandom ==
    /\ acid_index = 0
    /\ directions = {}
    /\ protein_path = <<>>
    /\ random_direction = None
    /\ backtrack_count = 0
    /\ max_backtracking = DefaultMaxBacktracking

\* no HillclimberFold is running
IdleHill ==
    /\ iterations = 0
    /\ iteration = 0
    /\ hs_position = None
    /\ hs_grid = None
    /\ hs_score = 0
    /\ hs_alias = FALSE
    /\ snippet_start = 0
    /\ snippet_length = 0
    /\ changed_position = None
    /\ changed_grid = None
    /\ count = 0

\* no AnnealingFold is running
IdleAnneal ==
    /\ temperature = 0
    /\ random_draw = 0

\* no BfsFold is running
IdleBfs ==
    /\ depth = 0
    /\ min_keys = {}
    /\ create_d = <<>>
    /\ first_coordinate = None
    /\ last_coordinate = None

\* no Bfs_randomFold is running
IdleBeam ==
    /\ unique_moves = {}
    /\ posit = <<>>

\* no constructor call is under way
IdleCtor == algorithm = None

\* a direction string is a sequence of letters; prev = None is ""
NoPrev == ""

\* no call of __valid_combinations is under way
IdleCombos ==
    /\ vc_prev = NoPrev
    /\ vc_length = 0
    /\ vc_it = 0

\* no SpiralFold is running
IdleSpiral ==
    /\ movement_index = 0
    /\ _steps = 0
    /\ sp_current = None

InitRandom ==
    /\ IdleSpiral
    /\ IdleBeam
    /\ IdleCtor
    /\ IdleCombos
    /\ IdleCalls
    /\ IdleHill
    /\ IdleAnneal
    /\ IdleBfs
    /\ sequence \in RandomSequences
    /\ dimensions \in {2, 3}
    /\ dimensions = 3 => Len0(sequence) <= RandLen3D
    /\ position = FreshPosition(sequence)
    /\ grid = EmptyGrid
    /\ pc = "start"
    /\ acid_index = 0
    /\ directions = {}
    /\ protein_path = <<>>
    /\ random_direction = None
    /\ backtrack_count = 0
    /\ max_backtracking \in MaxBacktrackingArgs

\* run() with avoid_overlap=True enters backtracking()
RandomBegin ==
    /\ pc = "start"
    /\ LET e == BacktrackingEntry(position, grid)
       IN  /\ grid' = e.grid
           /\ protein_path' = e.protein_path
    /\ directions' = _get_directions(dimensions)
    /\ acid_index' = 1
    /\ backtrack_count' = 0
    /\ pc' = "loop"
    /\ UNCHANGED <<sequence, dimensions, position, random_direction, max_backtracking, callVars, hillVars, annealVars, bfsVars,
                   beamVars, ctorVars, comboVars, spiralVars>>

\* the advance branch after a placement at new_position by direction d
\* (lines 177-188): the reversal of d is taken off a fresh direction list
AdvanceDirections(dims, d) == _get_directions(dims) \ {Neg(d)}

\* one loop iteration that ends in the advance branch: a drawn direction leads
\* to a free position and the residue is placed there; on the head (no
\* predecessor, reached only by backtracking from residue 1) nothing is placed
RandomPlace ==
    /\ pc = "loop"
    /\ acid_index < Len0(sequence)
    /\ IF acid_index >= 1
       THEN \E d \in FreeDirections :
              LET new_position == Add(position[acid_index - 1], d)
              IN  /\ position' = [position EXCEPT ![acid_index] = new_position]
                  /\ grid' = add_to_grid(grid, new_position, acid_index)
                  /\ protein_path' = [protein_path EXCEPT ![acid_index] = new_position]
                  /\ random_direction' = d
                  /\ directions' = AdvanceDirections(dimensions, d)
       ELSE /\ directions' = AdvanceDirections(dimensions, random_direction)
            /\ UNCHANGED <<position, grid, protein_path, random_direction>>
    /\ acid_index' = acid_index + 1
    /\ UNCHANGED <<sequence, dimensions, pc, backtrack_count, max_backtracking, callVars, hillVars, annealVars, bfsVars,
                   beamVars, ctorVars, comboVars, spiralVars>>

\* the directions list rebuilt by the backtracking branch
BacktrackDirections(dims, path, idx) ==
    LET avoid_direction_path == Sub(PathAt(path, idx - 2), PathAt(path, idx - 3))
        avoid_direction_failed_path == Sub(PathAt(path, idx - 1), PathAt(path, idx - 2))
    IN  _get_directions(dims) \ {avoid_direction_path, avoid_direction_failed_path}

\* one loop iteration in which every direction of the list is occupied and the
\* backtrack counter stays within max_backtracking
RandomBacktrack ==
    /\ pc = "loop"
    /\ acid_index < Len0(sequence)
    /\ acid_index >= 1
    /\ FreeDirections = {}
    /\ backtrack_count + 1 <= max_backtracking
    /\ random_direction' \in directions
    /\ directions' = BacktrackDirections(dimensions, protein_path, acid_index)
    /\ acid_index' = acid_index - 1
    /\ backtrack_count' = backtrack_count + 1
    /\ grid' = remove_from_grid(grid, BacktrackRemoved(position, acid_index))
    /\ UNCHANGED <<sequence, dimensions, position, pc, protein_path, max_backtracking, callVars, hillVars, annealVars, bfsVars,
                   beamVars, ctorVars, comboVars, spiralVars>>

\* the grid after the restart branch took every residue's position off it
RestartCleared(pos, g) ==
    [q \in (DOMAIN g) \ {pos[i] : i \in DOMAIN pos} |-> g[q]]

\* the same with the counter exceeding max_backtracking: every residue goes
\* back to (0,0,0), its position is taken off the grid, and backtracking()
\* calls itself with the default max_backtracking
RandomRestart ==
    /\ pc = "loop"
    /\ acid_index < Len0(sequence)
    /\ acid_index >= 1
    /\ FreeDirections = {}
    /\ backtrack_count + 1 > max_backtracking
    /\ random_direction' \in directions
    /\ LET e == BacktrackingEntry(FreshPosition(sequence), RestartCleared(position, grid))
       IN  /\ position' = FreshPosition(sequence)
           /\ grid' = e.grid
           /\ protein_path' = e.protein_path
    /\ directions' = _get_directions(dimensions)
    /\ acid_index' = 1
    /\ backtrack_count' = 0
    /\ max_backtracking' = DefaultMaxBacktracking
    /\ UNCHANGED <<sequence, dimensions, pc, callVars, hillVars, annealVars, bfsVars, beamVars, ctorVars, comboVars, spiralVars>>

\* the loop ends and run() returns the protein
RandomReturn ==
    /\ pc = "loop"
    /\ acid_index >= Len0(sequence)
    /\ pc' = "done"
    /\ UNCHANGED <<protVars, randVars, callVars, hillVars, annealVars, bfsVars, beamVars, ctorVars, comboVars, spiralVars>>

NextRandom ==
    \/ RandomBegin
    \/ RandomPlace
    \/ RandomBacktrack
    \/ RandomRestart
    \/ RandomReturn

SpecRandom == InitRandom /\ [][NextRandom]_vars

\* the chain is a self-avoiding, bond-adjacent walk
Distinct(pos) == \A i, j \in DOMAIN pos : i # j => pos[i] # pos[j]
BondAdjacent(pos) == \A i \in DOMAIN pos : i + 1 \in DOMAIN pos => Manhattan(pos[i], pos[i + 1]) = 1
\* the grid holds exactly one entry per residue, at that residue's position
GridExact(pos, g) ==
    /\ DOMAIN g = {pos[i] : i \in DOMAIN pos}
    /\ \A i \in DOMAIN pos : g[pos[i]] = i

\* C1: when RandomFold.run() (avoid_overlap=True) returns, residue 0 is at the
\* origin, the positions are pairwise distinct, consecutive residues are
\* lattice-adjacent and the grid holds exactly one entry per residue at that
\* residue's position, whatever directions were drawn
C1_RandomFoldValid ==
    pc = "done" =>
        /\ position[0] = Origin
        /\ Distinct(position)
        /\ BondAdjacent(position)
        /\ GridExact(position, grid)

----------------------------------------------------------------------------
(* Protein driven directly: position assignments and grid operations *)

\* the lattice cells the direct operations use: the origin, one and two steps
\* along x, and one step along z
Cells == {<<0, 0, 0>>, <<1, 0, 0>>, <<2, 0, 0>>, <<0, 0, 1>>}

ProteinSequences ==
    {[i \in 0..(n - 1) |-> "H"] : n \in 1..ProtLen}

InitProtein ==
    /\ IdleSpiral
    /\ IdleBeam
    /\ IdleCtor
    /\ IdleCombos
    /\ IdleCalls
    /\ IdleHill
    /\ IdleAnneal
    /\ IdleBfs
    /\ IdleRandom
    /\ sequence \in ProteinSequences
    /\ dimensions = 3
    /\ position = FreshPosition(sequence)
    /\ grid = EmptyGrid
    /\ pc = "protein"

\* acid.position = p, as the fold algorithms assign it
AssignPosition ==
    /\ pc = "protein"
    /\ \E i \in DOMAIN position, p \in Cells :
         position' = [position EXCEPT ![i] = p]
    /\ UNCHANGED <<sequence, dimensions, grid, pc, randVars, callVars, hillVars, annealVars, bfsVars,
                   beamVars, ctorVars, comboVars, spiralVars>>

ProteinAddToGrid ==
    /\ pc = "protein"
    /\ \E p \in Cells, acid \in DOMAIN position :
         grid' = add_to_grid(grid, p, acid)
    /\ UNCHANGED <<sequence, dimensions, position, pc, randVars, callVars, hillVars, annealVars, bfsVars,
                   beamVars, ctorVars, comboVars, spiralVars>>

ProteinRemoveFromGrid ==
    /\ pc = "protein"
    /\ \E p \in Cells :
         grid' = remove_from_grid(grid, p)
    /\ UNCHANGED <<sequence, dimensions, position, pc, randVars, callVars, hillVars, annealVars, bfsVars,
                   beamVars, ctorVars, comboVars, spiralVars>>

ProteinResetGrid ==
    /\ pc = "protein"
    /\ grid' = reset_grid(position)
    /\ UNCHANGED <<sequence, dimensions, position, pc, randVars, callVars, hillVars, annealVars, bfsVars,
                   beamVars, ctorVars, comboVars, spiralVars>>

NextProtein ==
    \/ AssignPosition
    \/ ProteinAddToGrid
    \/ ProteinRemoveFromGrid
    \/ ProteinResetGrid

SpecProtein == InitProtein /\ [][NextProtein]_vars

\* C2: whatever add_to_grid, remove_from_grid, reset_grid and position
\* assignments came before, a chain that is_valid() reports valid has no two
\* residues at the same position
C2_ValidImpliesDistinct ==
    is_valid(position, grid) => Distinct(position)

\* two positions differ by exactly 1 along exactly one axis and by 0 along the others
ExactlyOneAxis(p, q) ==
    \E a \in 1..3 :
        /\ p[a] - q[a] \in {-1, 1}
        /\ \A b \in (1..3) \ {a} : p[b] = q[b]

\* the first bond of the chain that is not a unit step along one axis, or -1
FirstBadBond(pos) ==
    LET bad == {i \in DOMAIN pos : i + 1 \in DOMAIN pos /\ ~ExactlyOneAxis(pos[i], pos[i + 1])}
    IN  IF bad = {} THEN -1 ELSE CHOOSE i \in bad : \A j \in bad : i <= j

\* C3: on a chain of length >= 2, is_valid() returning True implies that every
\* consecutive pair differs by exactly 1 along exactly one axis; and is_valid()
\* returns False at the first bond violating this, whatever the grid contains
C3_ValidImpliesBondAdjacent ==
    Len0(position) >= 2 =>
        /\ is_valid(position, grid) =>
              \A i \in DOMAIN position :
                  i + 1 \in DOMAIN position => ExactlyOneAxis(position[i], position[i + 1])
        /\ FirstBadBond(position) # -1 =>
              /\ IsValidWalk(position, grid, 0).result = FALSE
              /\ IsValidWalk(position, grid, 0).stop = FirstBadBond(position)

\* a three-residue self-avoiding chain with a step along z that is_valid()
\* reports valid
C3_Witness ==
    /\ Len0(position) = 3
    /\ is_valid(position, grid)
    /\ Distinct(position)
    /\ position[2] = <<0, 0, 1>>

----------------------------------------------------------------------------
(* Protein.get_score on placed chains *)

\* the lattice cells chains are placed on to be scored: a 2x2 square and the
\* cell above its origin
ScoreCells ==
    {<<0, 0, 0>>, <<1, 0, 0>>, <<0, 1, 0>>, <<1, 1, 0>>, <<0, 0, 1>>}

ScoreSequences ==
    UNION {[0..(n - 1) -> Types] : n \in 1..ScoreLen}

\* a chain whose residues were given pairwise distinct positions
InitScore ==
    /\ IdleSpiral
    /\ IdleBeam
    /\ IdleCtor
    /\ IdleCombos
    /\ IdleCalls
    /\ IdleHill
    /\ IdleAnneal
    /\ IdleBfs
    /\ IdleRandom
    /\ sequence \in ScoreSequences
    /\ dimensions = 3
    /\ position \in {f \in [DOMAIN sequence -> ScoreCells] :
                        \A i, j \in DOMAIN sequence : i # j => f[i] # f[j]}
    /\ grid = EmptyGrid
    /\ pc = "placed"

\* protein.reset_grid()
ScoreResetGrid ==
    /\ pc = "placed"
    /\ grid' = reset_grid(position)
    /\ pc' = "gridded"
    /\ UNCHANGED <<sequence, dimensions, position, randVars, callVars, hillVars, annealVars, bfsVars,
                   beamVars, ctorVars, comboVars, spiralVars>>

\* protein.get_score()
ScoreGetScore ==
    /\ pc = "gridded"
    /\ _score' = ScoreFrom(sequence, position, grid, 0)
    /\ returned' = get_score(sequence, position, grid)
    /\ pc' = "scored"
    /\ UNCHANGED <<protVars, randVars, hillVars, annealVars, bfsVars, beamVars, ctorVars, comboVars, spiralVars>>

NextScore ==
    \/ ScoreResetGrid
    \/ ScoreGetScore

SpecScore == InitScore /\ [][NextScore]_vars

\* the unordered pairs of residues that are lattice-adjacent and not chain-consecutive
ContactPairs(pos) ==
    {pr \in (DOMAIN pos) \X (DOMAIN pos) :
        /\ pr[1] + 1 < pr[2]
        /\ ExactlyOneAxis(pos[pr[1]], pos[pr[2]])}

\* the contribution of two types as the scoring table states it
PairTable(a, b) ==
    IF a = "P" \/ b = "P" THEN 0
    ELSE IF a = "H" \/ b = "H" THEN -1
    ELSE -5

RECURSIVE SumPairs(_, _)
SumPairs(seq, S) ==
    IF S = {} THEN 0
    ELSE LET pr == CHOOSE x \in S : TRUE
         IN  get_stability_score(seq[pr[1]], seq[pr[2]]) + SumPairs(seq, S \ {pr})

\* C4: for a chain with pairwise distinct positions whose grid maps every
\* residue's position to that residue, get_score() is the sum of the pair
\* contributions over the unordered lattice-adjacent, not chain-consecutive
\* pairs, each counted once
C4_ScoreIsPairSum ==
    (pc = "scored" /\ Distinct(position) /\ GridExact(position, grid)) =>
        returned = SumPairs(sequence, ContactPairs(position))

\* a scored bond-adjacent four-residue chain whose ends are in contact (C-C)
C4_Witness ==
    /\ pc = "scored"
    /\ Len0(position) = 4
    /\ BondAdjacent(position)
    /\ GridExact(position, grid)
    /\ returned = -5

\* C5: get_stability_score(a, b) is 0 if either type is P, otherwise -1 if
\* either is H, otherwise (both C) -5, and the same with a and b swapped
C5_StabilityTable ==
    \A i, j \in DOMAIN sequence :
        /\ get_stability_score(sequence[i], sequence[j]) = PairTable(sequence[i], sequence[j])
        /\ get_stability_score(sequence[i], sequence[j])
              = get_stability_score(sequence[j], sequence[i])

\* a scored chain with a C-C contact and an H-C contact
C5_Witness ==
    /\ pc = "scored"
    /\ returned = -6
    /\ \E pr \in ContactPairs(position) : sequence[pr[1]] = "C" /\ sequence[pr[2]] = "C"
    /\ \E pr \in ContactPairs(position) : {sequence[pr[1]], sequence[pr[2]]} = {"H", "C"}

----------------------------------------------------------------------------
(* HillclimberFold *)

\* the retry limit of _run_experiment's loop
MaxRetries == 50
\* the longest snippet _get_snippet takes
MaxSnippet == 20

\* the shortest snippet _get_snippet draws: random.randint(3, len(protein))
MinSnippet == 3

Min(a, b) == IF a < b THEN a ELSE b

\* the chains RandomFold.run() can leave on a fresh chain of m residues that is
\* too short to trap itself: the head stays at the origin and every further
\* residue goes to a free neighbour of its predecessor
RECURSIVE RandomFoldRuns(_, _)
RandomFoldRuns(m, dims) ==
    IF m <= 1 THEN {[i \in 0..(m - 1) |-> Origin]}
    ELSE {[i \in 0..(m - 1) |-> IF i = m - 1 THEN Add(w[m - 2], d) ELSE w[i]] :
            <<w, d>> \in {wd \in RandomFoldRuns(m - 1, dims) \X _get_directions(dims) :
                            \A i \in DOMAIN wd[1] : wd[1][i] # Add(wd[1][m - 2], wd[2])}}

\* the direction list of _find_translations, in its order
TranslationDirections(dims) ==
    IF dims = 3 THEN adjacent_positions ELSE SubSeq(adjacent_positions, 1, 4)

\* the translations that carry acid2 onto each neighbour of acid1
_find_translations(acid1, acid2, dims) ==
    [k \in DOMAIN TranslationDirections(dims) |->
        Sub(Add(acid1, TranslationDirections(dims)[k]), acid2)]

\* every residue from index current to the tail is moved by translation
_translate_positions(pos, current, translation) ==
    [i \in DOMAIN pos |-> IF i >= current THEN Add(pos[i], translation) ELSE pos[i]]

\* snippet_protein after the first k translations, which add up
RECURSIVE SnippetAfter(_, _, _)
SnippetAfter(w, translations, k) ==
    IF k = 0 THEN w
    ELSE _translate_positions(SnippetAfter(w, translations, k - 1), 0, translations[k])

\* the chain's residues from snippet_start on take the positions of all but the
\* last residue of the (popped) snippet; new_current is the residue after them
_translate_rest_of_protein(pos, snip, start) ==
    [i \in DOMAIN pos |->
        IF start <= i /\ i < start + Len0(snip) - 1 THEN snip[i - start] ELSE pos[i]]

\* the chain _fold_snippet tests in round k of the outer loop and round j of
\* the inner loop
FoldCandidate(w, anchor, start, length, pos, dims, k, j) ==
    LET snip == SnippetAfter(w, _find_translations(anchor, w[0], dims), k)
        rest == _translate_rest_of_protein(pos, snip, start)
        new_current == start + length - 2
        second == _find_translations(rest[new_current], snip[length - 2], dims)
    IN  _translate_positions(rest, new_current, second[j])

\* _fold_snippet(snippet, start, protein) where the random fold of the popped
\* snippet came out as w (grid wgrid) and snippet_copy[0] is at anchor: whether a
\* valid chain was found, the chain returned, and where the popped snippet's
\* residues are left
_fold_snippet(w, wgrid, anchor, start, length, pos, g, dims) ==
    LET translations == _find_translations(anchor, w[0], dims)
        rounds == DOMAIN translations
        Snip(k) == SnippetAfter(w, translations, k)
        Cand(k, j) == FoldCandidate(w, anchor, start, length, pos, dims, k, j)
        good == {kj \in rounds \X rounds :
                    /\ is_valid(Snip(kj[1]), wgrid)
                    /\ is_valid(Cand(kj[1], kj[2]), reset_grid(Cand(kj[1], kj[2])))}
        first == CHOOSE kj \in good : \A o \in good :
                    kj[1] < o[1] \/ (kj[1] = o[1] /\ kj[2] <= o[2])
    IN  IF good # {}
        THEN [found |-> TRUE,
              position |-> Cand(first[1], first[2]),
              grid |-> reset_grid(Cand(first[1], first[2])),
              snippet |-> Snip(first[1])]
        ELSE [found |-> FALSE,
              position |-> pos,
              grid |-> g,
              snippet |-> IF is_valid(w, wgrid) THEN Snip(Len(translations))
                          ELSE [i \in DOMAIN w |-> pos[start + 1 + i]]]

\* _set_snippet_positions on the snippet of the first _fold_snippet call, whose
\* residues are the chain's own residues start+1 .. start+length-1
SnippetAliased(pos, start, length, snip) ==
    [i \in DOMAIN pos |->
        IF start < i /\ i < start + length THEN snip[i - start - 1] ELSE pos[i]]

\* a record that is also replaced by an equal score
ImprovesOrTies(new_score, old_score) == new_score <= old_score
\* the test of _check_highscore
Improves(new_score, old_score) == new_score < old_score

HillSequences ==
    {[i \in 0..(n - 1) |-> "H"] : n \in 1..RandLen2D}

\* HillclimberFold(protein, dimensions, iterations) on a fresh chain; chains
\* longer than HillLen (MinSnippet in 3D) are run with no iteration
InitHill ==
    /\ IdleSpiral
    /\ IdleBeam
    /\ IdleCtor
    /\ IdleCombos
    /\ IdleCalls
    /\ IdleAnneal
    /\ IdleBfs
    /\ sequence \in HillSequences
    /\ dimensions \in {2, 3}
    /\ Len0(sequence) <= (IF dimensions = 2 THEN RandLen2D ELSE RandLen3D)
    /\ position = FreshPosition(sequence)
    /\ grid = EmptyGrid
    /\ pc = "start"
    /\ IdleRandom
    /\ iterations \in 0..HillIterations
    /\ (Len0(sequence) > (IF dimensions = 2 THEN HillLen ELSE MinSnippet)) => iterations = 0
    /\ iteration = 0
    /\ hs_position = None
    /\ hs_grid = None
    /\ hs_score = 0
    /\ hs_alias = FALSE
    /\ snippet_start = 0
    /\ snippet_length = 0
    /\ changed_position = None
    /\ changed_grid = None
    /\ count = 0

\* run(), after the random fold: the record starts as a deep copy of the fold
\* with the score get_score() reads off the copied grid
HillStart ==
    /\ pc = "done"
    /\ hs_position' = position
    /\ hs_grid' = grid
    /\ hs_score' = get_score(sequence, position, grid)
    /\ hs_alias' = FALSE
    /\ iteration' = 0
    /\ pc' = "iter"
    /\ UNCHANGED <<protVars, randVars, callVars, iterations, snippet_start, snippet_length,
                   changed_position, changed_grid, count, annealVars, bfsVars,
                   beamVars, ctorVars, comboVars, spiralVars>>

\* the end of _run_experiment: changed (after tries retries) is checked against
\* the record; aliased is the chain run() holds after the first _fold_snippet
HillCheck(start, length, aliased, changed, tries) ==
    LET new_grid == reset_grid(changed.position)
        new_score == get_score(sequence, changed.position, new_grid)
        accepted == /\ is_valid(changed.position, changed.grid)
                    /\ Improves(new_score, hs_score)
    IN  /\ snippet_start' = start
        /\ snippet_length' = length
        /\ changed_position' = changed.position
        /\ changed_grid' = changed.grid
        /\ count' = tries
        /\ IF accepted
           THEN /\ hs_position' = changed.position
                /\ hs_grid' = new_grid
                /\ hs_score' = new_score
                /\ hs_alias' = TRUE
                /\ position' = changed.position
                /\ grid' = new_grid
           ELSE /\ hs_position' = IF hs_alias THEN aliased ELSE hs_position
                /\ UNCHANGED <<hs_grid, hs_score, hs_alias, grid>>
                /\ position' = aliased

\* one iteration of run(): _run_experiment(protein) from _get_snippet to its
\* return; a call of _fold_snippet that finds nothing returns protein_copy,
\* which has the positions and the grid of the chain it was given, so every
\* retry starts from the same chain: the loop ends with the first call that
\* finds a chain, or after MaxRetries calls that find none
HillRunExperiment ==
    /\ pc = "iter"
    /\ iteration < iterations
    /\ Len0(sequence) >= MinSnippet
    /\ \E drawn \in MinSnippet..Len0(sequence) :
         LET length == Min(drawn, MaxSnippet)
         IN  \E start \in 0..(Len0(sequence) - length) :
               LET calls == {_fold_snippet(w, reset_grid(w), position[start], start, length,
                                           position, grid, dimensions) :
                               w \in RandomFoldRuns(length - 1, dimensions)}
               IN  \E drawn_calls \in calls \X calls :
                     LET first == drawn_calls[1]
                         again == drawn_calls[2]
                         aliased == SnippetAliased(position, start, length, first.snippet)
                     IN  IF is_valid(first.position, first.grid)
                         THEN HillCheck(start, length, aliased, first, 0)
                         ELSE IF again.found
                              THEN \E tries \in 1..MaxRetries :
                                     HillCheck(start, length, aliased, again, tries)
                              ELSE HillCheck(start, length, aliased, first, MaxRetries)
    /\ iteration' = iteration + 1
    /\ UNCHANGED <<sequence, dimensions, pc, randVars, callVars, iterations, annealVars, bfsVars,
                   beamVars, ctorVars, comboVars, spiralVars>>

\* _get_snippet on a chain shorter than 3: random.randint(3, len) raises
HillRaise ==
    /\ pc = "iter"
    /\ iteration < iterations
    /\ Len0(sequence) < MinSnippet
    /\ pc' = "raised"
    /\ UNCHANGED <<protVars, randVars, callVars, hillVars, annealVars, bfsVars, beamVars, ctorVars, comboVars, spiralVars>>

\* run() returns _highscore[0]
HillReturn ==
    /\ pc = "iter"
    /\ iteration >= iterations
    /\ pc' = "returned"
    /\ UNCHANGED <<protVars, randVars, callVars, hillVars, annealVars, bfsVars, beamVars, ctorVars, comboVars, spiralVars>>

\* backtracking()'s restart branch needs more than DefaultMaxBacktracking
\* backtracks and is out of reach of these chains
NextHill ==
    \/ RandomBegin
    \/ RandomPlace
    \/ RandomBacktrack
    \/ RandomReturn
    \/ HillStart
    \/ HillRunExperiment
    \/ HillRaise
    \/ HillReturn

SpecHill == InitHill /\ [][NextHill]_vars

\* the record is replaced in this step by the candidate of the experiment
RecordReplaced ==
    /\ hs_position' = changed_position'
    /\ hs_grid' = reset_grid(changed_position')
    /\ hs_score' = get_score(sequence, changed_position', reset_grid(changed_position'))
    /\ hs_score' # hs_score

\* the recorded best chain is a proper fold whose score is the recorded score
RecordedBestSound ==
    /\ Distinct(hs_position)
    /\ BondAdjacent(hs_position)
    /\ get_score(sequence, hs_position, reset_grid(hs_position)) = hs_score

\* C6: at the end of every iteration and when run() returns, the recorded best
\* chain is self-avoiding and bond-adjacent and its score recomputed after
\* reset_grid() equals the recorded best score; an iteration changes the
\* positions of the recorded best chain only by replacing the record with an
\* accepted candidate
C6_RecordedBestSound ==
    /\ [](((pc = "iter" /\ iteration >= 1) \/ pc = "returned") => RecordedBestSound)
    /\ [][(pc = "iter" /\ hs_position' # hs_position) => RecordReplaced]_vars

\* the candidate of the last experiment is valid and scores strictly below old_score
CandidateImproves(old_score) ==
    /\ is_valid(changed_position', changed_grid')
    /\ get_score(sequence, changed_position', reset_grid(changed_position')) < old_score

----------------------------------------------------------------------------
(* AnnealingFold._check_highscore *)

\* 2 ** (delta / temp) > k / DrawDen for a whole temperature temp >= 1 and a
\* draw numerator k >= 0, decided in integers: both sides are raised to the
\* power temp
TwoPowerAbove(delta, temp, k) ==
    IF delta >= 0 THEN (DrawDen ^ temp) * (2 ^ delta) > k ^ temp
    ELSE DrawDen ^ temp > (k ^ temp) * (2 ^ (0 - delta))

\* chance = min(2, 2 ** ((old_score - new_score) / temperature)) and the test
\* chance > random.random() for the draw k / DrawDen
ChanceAboveDraw(old_score, new_score, temp, k) ==
    /\ 2 * DrawDen > k
    /\ TwoPowerAbove(old_score - new_score, temp, k)

AnnealSequences ==
    {[i \in 0..(n - 1) |-> "H"] : n \in 1..AnnealLen}

\* an annealer holding a recorded score and a temperature is handed a
\* candidate chain with any positions on the cells
InitAnneal ==
    /\ IdleSpiral
    /\ IdleBeam
    /\ IdleCtor
    /\ IdleCombos
    /\ IdleCalls
    /\ IdleRandom
    /\ IdleBfs
    /\ sequence \in AnnealSequences
    /\ dimensions = 3
    /\ position \in [DOMAIN sequence -> ScoreCells]
    /\ grid = EmptyGrid
    /\ pc = "anneal"
    /\ iterations = 0
    /\ iteration = 0
    /\ hs_position = None
    /\ hs_grid = None
    /\ hs_score \in (0 - OldScoreRange)..0
    /\ hs_alias = FALSE
    /\ snippet_start = 0
    /\ snippet_length = 0
    /\ changed_position = None
    /\ changed_grid = None
    /\ count = 0
    /\ temperature \in 1..AnnealTemp
    /\ random_draw = 0

\* _check_highscore(protein) on the candidate: the grid is reset, an invalid
\* candidate is refused, and the record is replaced under the final test;
\* random_draw is the value random.random() yields if the test comes to call it
AnnealCheckHighscore ==
    /\ pc = "anneal"
    /\ \E k \in 0..(DrawDen - 1) :
         LET new_grid == reset_grid(position)
             new_score == get_score(sequence, position, new_grid)
             accepted == /\ is_valid(position, new_grid)
                         /\ new_score < hs_score
                         /\ ChanceAboveDraw(hs_score, new_score, temperature, k)
         IN  /\ random_draw' = k
             /\ grid' = new_grid
             /\ returned' = accepted
             /\ hs_position' = IF accepted THEN position ELSE hs_position
             /\ hs_grid' = IF accepted THEN new_grid ELSE hs_grid
             /\ hs_score' = IF accepted THEN new_score ELSE hs_score
             /\ hs_alias' = accepted
    /\ pc' = "checked"
    /\ UNCHANGED <<sequence, dimensions, position, randVars, _score, iterations, iteration,
                   snippet_start, snippet_length, changed_position, changed_grid, count,
                   temperature, bfsVars, beamVars, ctorVars, comboVars, spiralVars>>

NextAnneal == AnnealCheckHighscore

SpecAnneal == InitAnneal /\ [][NextAnneal]_vars

\* C8: _check_highscore accepts a valid candidate whenever its score is
\* strictly lower than the current score, whatever the draw and the
\* temperature, and accepts a valid non-improving candidate exactly when the
\* fresh draw is below 2^((oldScore - newScore) / temperature)
C8_AnnealAcceptance ==
    [][(pc = "anneal" /\ is_valid(position, reset_grid(position))) =>
          LET new_score == get_score(sequence, position, reset_grid(position))
          IN  IF new_score < hs_score
              THEN returned' = TRUE
              ELSE returned' = TwoPowerAbove(hs_score - new_score, temperature, random_draw')]_vars

----------------------------------------------------------------------------
(* BfsFold *)

\* the window loop starts at this depth when the sequence holds a C
CutWithC == 6
\* the window loop starts at this depth when the sequence holds no C
CutWithoutC == 4

bfs_types(dims) ==
    IF dims = 2 THEN {"R", "L", "U", "D"} ELSE {"R", "L", "U", "D", "F", "B"}

\* the reversal test without the pair F/B
ReversesPlanar(key, prev) ==
    <<key, prev>> \in {<<"R", "L">>, <<"L", "R">>, <<"U", "D">>, <<"D", "U">>}
\* the test that skips a key undoing the previous step
Reverses(key, prev) ==
    <<key, prev>> \in {<<"R", "L">>, <<"L", "R">>, <<"U", "D">>, <<"D", "U">>,
                       <<"F", "B">>, <<"B", "F">>}

\* the move table of __create_nested_dict
nested_move(key) ==
    CASE key = "R" -> <<1, 0, 0>>
      [] key = "L" -> <<-1, 0, 0>>
      [] key = "U" -> <<0, 1, 0>>
      [] key = "D" -> <<0, -1, 0>>
      [] key = "F" -> <<0, 0, 1>>
      [] key = "B" -> <<0, 0, -1>>

\* a move table with U and D exchanged
move_swapped(key) ==
    CASE key = "R" -> <<1, 0, 0>>
      [] key = "L" -> <<-1, 0, 0>>
      [] key = "U" -> <<0, -1, 0>>
      [] key = "D" -> <<0, 1, 0>>
      [] key = "F" -> <<0, 0, 1>>
      [] key = "B" -> <<0, 0, -1>>
\* the move table of get_possible_foldings
move(key) ==
    CASE key = "R" -> <<1, 0, 0>>
      [] key = "L" -> <<-1, 0, 0>>
      [] key = "U" -> <<0, 1, 0>>
      [] key = "D" -> <<0, -1, 0>>
      [] key = "F" -> <<0, 0, 1>>
      [] key = "B" -> <<0, 0, -1>>

\* the direction strings of the given length in which no key undoes the one before
RECURSIVE _valid_combinations(_, _, _, _)
_valid_combinations(keys, prev, length, it) ==
    IF it = length THEN {<<>>}
    ELSE UNION {{<<key>> \o combo : combo \in _valid_combinations(keys, key, length, it + 1)} :
                  key \in {k \in keys : ~Reverses(k, prev)}}

\* the nested dict: "pos" and, below depth 1, one entry per key that does not
\* undo prev; single says the chain has one residue (head.link is None)
RECURSIVE _create_nested_dict(_, _, _, _, _)
_create_nested_dict(single, keys, d, prev, pos) ==
    IF single \/ d = 1 THEN [pos |-> pos, next |-> <<>>]
    ELSE [pos |-> pos,
          next |-> [key \in {k \in keys : ~Reverses(k, prev)} |->
                      _create_nested_dict(single, keys, d - 1, key, Add(pos, nested_move(key)))]]

\* dict_ = dict_[step] for the steps i, i+1, ... of folding
RECURSIVE DictWalk(_, _, _)
DictWalk(dict_, folding, i) ==
    IF i > Len(folding) THEN dict_
    ELSE DictWalk(dict_.next[folding[i]], folding, i + 1)

when_cutting(seq) ==
    IF \E i \in DOMAIN seq : seq[i] = "C" THEN CutWithC ELSE CutWithoutC

EmptyDict == <<>>

\* __create_dict: score_dict is filled only under depth > len(protein_sequence);
\* there, from an empty best_options, the walk over steps runs past the tail
\* and raises AttributeError; otherwise the empty score_dict is returned
_create_dict(seq, d, best_options) ==
    IF d > Len0(seq) THEN [raised |-> TRUE, score_dict |-> EmptyDict]
    ELSE [raised |-> FALSE, score_dict |-> EmptyDict]

\* the keys of a score dict that reach its minimum
MinKeys(score_dict) ==
    {k \in DOMAIN score_dict : \A j \in DOMAIN score_dict : score_dict[k] <= score_dict[j]}

\* the chain after the positions of folding are written from the nested dict
FoldingCommitted(pos, dims, folding) ==
    LET nested_dict == _create_nested_dict(Len0(pos) = 1, bfs_types(dims), Len0(pos),
                                           NoPrev, Origin)
    IN  [i \in DOMAIN pos |->
            IF 1 <= i /\ i <= Len(folding)
            THEN DictWalk(nested_dict, SubSeq(folding, 1, i), 1).pos
            ELSE pos[i]]

\* add_to_grid for every residue, head to tail, onto the grid g
AddAllToGrid(g, pos) ==
    [q \in (DOMAIN g) \cup {pos[i] : i \in DOMAIN pos} |->
        IF q \in {pos[i] : i \in DOMAIN pos} THEN reset_grid(pos)[q] ELSE g[q]]

BfsSequences ==
    UNION {[0..(n - 1) -> {"H", "C"}] : n \in 1..BfsLen}

\* BfsFold(protein, dimensions) on a fresh chain, run() about to start
InitBfs ==
    /\ IdleSpiral
    /\ IdleBeam
    /\ IdleCtor
    /\ IdleCombos
    /\ IdleCalls
    /\ IdleRandom
    /\ IdleHill
    /\ IdleAnneal
    /\ IdleBfs
    /\ sequence \in BfsSequences
    /\ dimensions \in {2, 3}
    /\ position = FreshPosition(sequence)
    /\ grid = EmptyGrid
    /\ pc = "bfs"

\* __bfsfold up to the window loop
BfsBegin ==
    /\ pc = "bfs"
    /\ depth' = when_cutting(sequence)
    /\ min_keys' = {}
    /\ pc' = "window"
    /\ UNCHANGED <<protVars, randVars, callVars, hillVars, annealVars, create_d,
                   first_coordinate, last_coordinate, beamVars, ctorVars, comboVars, spiralVars>>

\* one round of the window loop: min() of an empty score dict raises
\* ValueError; otherwise one key of minimal score is kept
BfsWindow ==
    /\ pc = "window"
    /\ depth < Len0(sequence)
    /\ LET made == _create_dict(sequence, depth, min_keys)
       IN  IF made.raised \/ made.score_dict = EmptyDict
           THEN /\ pc' = "raised"
                /\ UNCHANGED <<depth, min_keys, create_d>>
           ELSE /\ create_d' = made.score_dict
                /\ \E k \in MinKeys(made.score_dict) : min_keys' = {k}
                /\ depth' = depth + 1
                /\ pc' = "window"
    /\ UNCHANGED <<protVars, randVars, callVars, hillVars, annealVars,
                   first_coordinate, last_coordinate, beamVars, ctorVars, comboVars, spiralVars>>

\* after the window loop: random.choice(list(min_keys)) raises IndexError on
\* an empty min_keys; otherwise the chosen folding is written to the chain and
\* the chain to its grid, and run() returns the chain
BfsChoose ==
    /\ pc = "window"
    /\ depth >= Len0(sequence)
    /\ IF min_keys = {}
       THEN /\ pc' = "raised"
            /\ UNCHANGED <<position, grid, returned>>
       ELSE \E folding \in min_keys :
              IF Len(folding) > Len0(sequence) - 1
              THEN /\ pc' = "raised"
                   /\ UNCHANGED <<position, grid, returned>>
              ELSE /\ position' = FoldingCommitted(position, dimensions, folding)
                   /\ grid' = AddAllToGrid(grid, position')
                   /\ returned' = position'
                   /\ pc' = "returned"
    /\ UNCHANGED <<sequence, dimensions, randVars, _score, hillVars, annealVars, bfsVars, beamVars, ctorVars, comboVars, spiralVars>>

NextBfs ==
    \/ BfsBegin
    \/ BfsWindow
    \/ BfsChoose

SpecBfs == InitBfs /\ [][NextBfs]_vars

\* C9: a call of BfsFold.run() on a sequence of length >= 2 ends by returning,
\* and then residue 0 is at the origin, the chain is self-avoiding and
\* bond-adjacent, the grid has exactly one entry per residue, and the fold
\* committed is one of the candidates of minimal score of the last window
C9_BfsRunCommitsFold ==
    (pc \in {"returned", "raised"} /\ Len0(sequence) >= 2) =>
        /\ pc = "returned"
        /\ position[0] = Origin
        /\ Distinct(position)
        /\ BondAdjacent(position)
        /\ GridExact(position, grid)
        /\ \E k \in MinKeys(create_d) : position = FoldingCommitted(position, dimensions, k)

----------------------------------------------------------------------------
(* BfsFold.get_possible_foldings *)
\* the position of residue i of the chain built for folding from first
RECURSIVE FoldingPosition(_, _, _)
FoldingPosition(first, folding, i) ==
    IF i = 0 THEN first
    ELSE Add(FoldingPosition(first, folding, i - 1), move(folding[i]))

\* get_possible_foldings(protein, first, last) on a chain of n residues: one
\* residue list (here its positions, with the folding it was built from) per
\* direction string whose walk through the nested dict ends at last
get_possible_foldings(n, dims, first, last) ==
    LET types == bfs_types(dims)
        possible_foldings == _valid_combinations(types, NoPrev, n - 1, 0)
        dict_fold == _create_nested_dict(n = 1, types, n, NoPrev, first)
        valid_foldings == {f \in possible_foldings : DictWalk(dict_fold, f, 1).pos = last}
    IN  {[folding |-> f,
          acids |-> [i \in 0..(n - 1) |-> FoldingPosition(first, f, i)]] : f \in valid_foldings}

FoldSequences ==
    {[i \in 0..(n - 1) |-> "H"] : n \in 1..FoldLen}

\* the anchors handed to get_possible_foldings
FoldFirsts == {<<0, 0, 0>>, <<1, 0, 0>>}
FoldLasts == {<<x, y, z>> : x \in -1..2, y \in -1..2, z \in 0..1}

InitFoldings ==
    /\ IdleSpiral
    /\ IdleBeam
    /\ IdleCtor
    /\ IdleCombos
    /\ IdleCalls
    /\ IdleRandom
    /\ IdleHill
    /\ IdleAnneal
    /\ sequence \in FoldSequences
    /\ dimensions \in {2, 3}
    /\ position = FreshPosition(sequence)
    /\ grid = EmptyGrid
    /\ pc = "foldings"
    /\ depth = 0
    /\ min_keys = {}
    /\ create_d = <<>>
    /\ first_coordinate \in FoldFirsts
    /\ last_coordinate \in FoldLasts

GetPossibleFoldings ==
    /\ pc = "foldings"
    /\ returned' = get_possible_foldings(Len0(sequence), dimensions, first_coordinate,
                                         last_coordinate)
    /\ pc' = "folded"
    /\ UNCHANGED <<protVars, randVars, _score, hillVars, annealVars, bfsVars, beamVars, ctorVars, comboVars, spiralVars>>

NextFoldings == GetPossibleFoldings

SpecFoldings == InitFoldings /\ [][NextFoldings]_vars

\* the unit step a direction letter stands for
StepVector(letter) ==
    CASE letter = "R" -> <<1, 0, 0>>
      [] letter = "L" -> <<-1, 0, 0>>
      [] letter = "U" -> <<0, 1, 0>>
      [] letter = "D" -> <<0, -1, 0>>
      [] letter = "F" -> <<0, 0, 1>>
      [] letter = "B" -> <<0, 0, -1>>

\* the direction sequences of length m in which no step is the negation of the one before
NonReversing(m, dims) ==
    {f \in [1..m -> bfs_types(dims)] :
        \A i \in 1..(m - 1) : StepVector(f[i + 1]) # Neg(StepVector(f[i]))}

\* the point the walk of f from first has reached after i steps
RECURSIVE WalkPoint(_, _, _)
WalkPoint(first, f, i) ==
    IF i = 0 THEN first ELSE Add(WalkPoint(first, f, i - 1), StepVector(f[i]))

\* C10: get_possible_foldings returns one residue list for each non-reversing
\* direction sequence of length len(protein)-1 whose walk from first ends at
\* last, and for no other sequence; in every returned list the first residue is
\* at first, the last residue is at last and consecutive residues are
\* lattice-adjacent; when there is no such sequence the result is empty
C10_PossibleFoldings ==
    pc = "folded" =>
        LET n == Len0(sequence)
            wanted == {f \in NonReversing(n - 1, dimensions) :
                          WalkPoint(first_coordinate, f, n - 1) = last_coordinate}
        IN  /\ {r.folding : r \in returned} = wanted
            /\ Cardinality(returned) = Cardinality(wanted)
            /\ \A r \in returned :
                 /\ r.acids = [i \in 0..(n - 1) |-> WalkPoint(first_coordinate, r.folding, i)]
                 /\ r.acids[0] = first_coordinate
                 /\ r.acids[n - 1] = last_coordinate
                 /\ BondAdjacent(r.acids)

\* a four-residue chain with four reconnections in 3D (URD, DRU, FRB, BRF)
C10_Witness ==
    /\ pc = "folded"
    /\ Len0(sequence) = 4
    /\ dimensions = 3
    /\ first_coordinate = <<0, 0, 0>>
    /\ last_coordinate = <<1, 0, 0>>
    /\ Cardinality(returned) >= 4

----------------------------------------------------------------------------
(* Bfs_randomFold._bfsfold / MctsFold._bfsfold *)

\* the depth the window loop starts from, before it is cut to the chain
BeamCut2D == 6
BeamCut3D == 4
\* the window loop stops before this depth on chains of at least as many residues
BeamHorizon == 8

\* the axis-flip map: every direction letter to its opposite
mirror_map(key) ==
    CASE key = "R" -> "L"
      [] key = "L" -> "R"
      [] key = "U" -> "D"
      [] key = "D" -> "U"
      [] key = "F" -> "B"
      [] key = "B" -> "F"

\* cyclic rotation equivalence: move1 occurs in move2 written twice
_is_rotation(move1, move2) ==
    /\ Len(move1) = Len(move2)
    /\ \E i \in 0..Len(move2) :
         i + Len(move1) <= 2 * Len(move2)
         /\ SubSeq(move2 \o move2, i + 1, i + Len(move1)) = move1

\* mirror equivalence: move1 under the axis-flip map is move2 read in reverse
_is_mirror(move1, move2) ==
    /\ Len(move1) = Len(move2)
    /\ [i \in 1..Len(move1) |-> mirror_map(move1[i])]
         = [i \in 1..Len(move2) |-> move2[Len(move2) + 1 - i]]

_is_mirror_or_rotation(move1, move2) ==
    _is_rotation(move1, move2) \/ _is_mirror(move1, move2)

\* a tied key is kept when it differs from every key kept so far
IsNewMoveByEquality(move_, kept) ==
    \A unique_move \in kept : move_ # unique_move
\* a tied key is kept when it is no mirror or rotation of any key kept so far
IsNewMove(move_, kept) ==
    \A unique_move \in kept : ~_is_mirror_or_rotation(move_, unique_move)

\* the loop over min_keys, visited in the order the set yields them
RECURSIVE DedupFrom(_, _, _)
DedupFrom(order, i, kept) ==
    IF i > Len(order) THEN kept
    ELSE DedupFrom(order, i + 1,
                   IF IsNewMove(order[i], kept) THEN kept \cup {order[i]} ELSE kept)

\* the orders in which iterating over a set can yield its elements
Orders(S) ==
    {o \in [1..Cardinality(S) -> S] : {o[i] : i \in DOMAIN o} = S}

\* when_cutting after the loop that cuts it below the chain length
beam_when_cutting(n, dims) ==
    Min(IF dims = 2 THEN BeamCut2D ELSE BeamCut3D, n - 1)

going_till(n) == IF n < BeamHorizon THEN n - 1 ELSE BeamHorizon

\* posit after the moves of a direction string are appended to [(0, 0, 0)]
PositOf(folding) ==
    [i \in 1..(Len(folding) + 1) |-> FoldingPosition(Origin, folding, i - 1)]

\* the direction strings a window's score dict can hold: without a beam the
\* strings of one length whose walk never reverses or collides, with a beam the
\* beam's string extended by one step
WindowKeys(dims, best_options, l) ==
    LET grown == IF best_options = {}
                 THEN _valid_combinations(bfs_types(dims), NoPrev, l, 0)
                 ELSE UNION {{k \o <<x>> :
                                x \in {t \in bfs_types(dims) : ~Reverses(t, k[Len(k)])}} :
                               k \in best_options}
    IN  {k \in grown : \A i, j \in DOMAIN PositOf(k) :
                          i # j => PositOf(k)[i] # PositOf(k)[j]}

\* the subsets of S of at most k elements
RECURSIVE SubsetsUpTo(_, _)
SubsetsUpTo(S, k) ==
    IF k = 0 THEN {{}}
    ELSE LET smaller == SubsetsUpTo(S, k - 1)
         IN  smaller \cup UNION {{T \cup {x} : x \in S} : T \in smaller}

\* the score dicts a window can get: at most BeamDict keys, each scored 0 or -1
WindowDicts(dims, best_options) ==
    UNION {UNION {[K -> {-1, 0}] :
                    K \in SubsetsUpTo(WindowKeys(dims, best_options, l), BeamDict)} :
             l \in 1..(IF dims = 2 THEN BeamLen ELSE BeamLen - 1)}

BeamSequences ==
    {[i \in 0..(n - 1) |-> "H"] : n \in 1..BeamChain}

\* Bfs_randomFold(protein, dimensions) on a fresh chain, _bfsfold about to start
InitBeam ==
    /\ IdleSpiral
    /\ IdleCalls
    /\ IdleRandom
    /\ IdleHill
    /\ IdleAnneal
    /\ IdleBfs
    /\ IdleBeam
    /\ IdleCtor
    /\ IdleCombos
    /\ sequence \in BeamSequences
    /\ dimensions \in {2, 3}
    /\ Len0(sequence) <= (IF dimensions = 2 THEN BeamChain ELSE BeamChain - 2)
    /\ position = FreshPosition(sequence)
    /\ grid = EmptyGrid
    /\ pc = "beam"

\* _bfsfold up to the window loop
BeamBegin ==
    /\ pc = "beam"
    /\ posit' = <<Origin>>
    /\ min_keys' = {}
    /\ depth' = beam_when_cutting(Len0(sequence), dimensions)
    /\ pc' = "round"
    /\ UNCHANGED <<protVars, randVars, callVars, hillVars, annealVars, create_d,
                   first_coordinate, last_coordinate, unique_moves, ctorVars, comboVars, spiralVars>>

\* one round of the window loop up to the end of the loop over min_keys:
\* min() of an empty score dict raises ValueError; otherwise min_keys are the
\* keys of minimal score and unique_moves what the loop keeps of them
BeamWindow ==
    /\ pc = "round"
    /\ depth < going_till(Len0(sequence))
    /\ \E score_dict \in WindowDicts(dimensions, min_keys) :
         IF DOMAIN score_dict = {}
         THEN /\ pc' = "raised"
              /\ UNCHANGED <<min_keys, unique_moves, posit>>
         ELSE /\ min_keys' = MinKeys(score_dict)
              /\ \E order \in Orders(MinKeys(score_dict)) :
                   unique_moves' = DedupFrom(order, 1, {})
              /\ posit' = <<Origin>>
              /\ pc' = "sample"
    /\ UNCHANGED <<protVars, randVars, callVars, hillVars, annealVars, depth, create_d,
                   first_coordinate, last_coordinate, ctorVars, comboVars, spiralVars>>

\* the rest of the round: random.sample(unique_moves, 1) on a set of two or
\* more keys yields one of them (up to Python 3.10) or raises TypeError (from
\* Python 3.11 on); the one key left is walked into posit and becomes min_keys
BeamSample ==
    /\ pc = "sample"
    /\ \/ /\ Cardinality(unique_moves) >= 2
          /\ pc' = "raised"
          /\ UNCHANGED <<min_keys, unique_moves, posit, depth>>
       \/ \E chosen \in unique_moves :
            /\ unique_moves' = {chosen}
            /\ posit' = PositOf(chosen)
            /\ min_keys' = {chosen}
            /\ depth' = depth + 1
            /\ pc' = "round"
    /\ UNCHANGED <<protVars, randVars, callVars, hillVars, annealVars, create_d,
                   first_coordinate, last_coordinate, ctorVars, comboVars, spiralVars>>

\* the window loop is over: _bfsfold returns min_keys
BeamReturn ==
    /\ pc = "round"
    /\ depth >= going_till(Len0(sequence))
    /\ returned' = min_keys
    /\ pc' = "returned"
    /\ UNCHANGED <<protVars, randVars, _score, hillVars, annealVars, bfsVars, beamVars,
                   ctorVars, comboVars, spiralVars>>

NextBeam ==
    \/ BeamBegin
    \/ BeamWindow
    \/ BeamSample
    \/ BeamReturn

SpecBeam == InitBeam /\ [][NextBeam]_vars

\* b is a written as a ring and read from some other starting letter
RotationOf(a, b) ==
    /\ Len(a) = Len(b)
    /\ \E k \in 0..(Len(a) - 1) :
         \A i \in 1..Len(a) : b[i] = a[((i + k - 1) % Len(a)) + 1]

\* b read backwards is a with every step turned to the opposite direction
MirrorOf(a, b) ==
    /\ Len(a) = Len(b)
    /\ \A i \in 1..Len(a) : StepVector(b[Len(b) + 1 - i]) = Neg(StepVector(a[i]))

RotationOrMirror(a, b) == RotationOf(a, b) \/ MirrorOf(a, b)

----------------------------------------------------------------------------
(* The constructors of the fold algorithms *)

FoldAlgorithms ==
    {"RandomFold", "HillclimberFold", "AnnealingFold", "SpiralFold", "BfsFold",
     "Bfs_randomFold", "FressFold"}

CtorSequences ==
    UNION {[0..(n - 1) -> Types] : n \in 1..CtorLen}

\* a constructor call on a fresh chain is about to start
InitCtor ==
    /\ IdleSpiral
    /\ IdleCombos
    /\ IdleCalls
    /\ IdleRandom
    /\ IdleHill
    /\ IdleAnneal
    /\ IdleBfs
    /\ IdleBeam
    /\ algorithm \in FoldAlgorithms
    /\ sequence \in CtorSequences
    /\ dimensions \in 0..CtorDims
    /\ position = FreshPosition(sequence)
    /\ grid = EmptyGrid
    /\ pc = "construct"

\* the test `dimensions not in (2, 3)` that opens a constructor
DimensionsAccepted(dims) == dims \in {2, 3}

\* the constructor ends: by raising the named exception or with the object built
CtorEnds(outcome) ==
    /\ pc' = outcome
    /\ UNCHANGED <<protVars, randVars, callVars, hillVars, annealVars, bfsVars, beamVars,
                   ctorVars, comboVars, spiralVars>>

\* RandomFold.__init__
ConstructRandomFold ==
    /\ pc = "construct"
    /\ algorithm = "RandomFold"
    /\ CtorEnds(IF DimensionsAccepted(dimensions) THEN "constructed" ELSE "ValueError")

\* HillclimberFold.__init__
ConstructHillclimberFold ==
    /\ pc = "construct"
    /\ algorithm = "HillclimberFold"
    /\ CtorEnds(IF DimensionsAccepted(dimensions) THEN "constructed" ELSE "ValueError")

\* AnnealingFold.__init__: its first statement calls HillclimberFold.__init__
\* with six arguments where at most four are taken, which raises TypeError
\* before the body of that constructor runs
ConstructAnnealingFold ==
    /\ pc = "construct"
    /\ algorithm = "AnnealingFold"
    /\ CtorEnds("TypeError")

\* SpiralFold.__init__
ConstructSpiralFold ==
    /\ pc = "construct"
    /\ algorithm = "SpiralFold"
    /\ CtorEnds(IF DimensionsAccepted(dimensions) THEN "constructed" ELSE "ValueError")

\* BfsFold.__init__ stores its arguments and tests nothing
ConstructBfsFold ==
    /\ pc = "construct"
    /\ algorithm = "BfsFold"
    /\ CtorEnds("constructed")

\* Bfs_randomFold.__init__ calls BfsFold.__init__ and stores the protein
ConstructBfs_randomFold ==
    /\ pc = "construct"
    /\ algorithm = "Bfs_randomFold"
    /\ CtorEnds("constructed")

\* FressFold.__init__ stores its arguments and tests nothing
ConstructFressFold ==
    /\ pc = "construct"
    /\ algorithm = "FressFold"
    /\ CtorEnds("constructed")

NextCtor ==
    \/ ConstructRandomFold
    \/ ConstructHillclimberFold
    \/ ConstructAnnealingFold
    \/ ConstructSpiralFold
    \/ ConstructBfsFold
    \/ ConstructBfs_randomFold
    \/ ConstructFressFold

SpecCtor == InitCtor /\ [][NextCtor]_vars

\* C13: a constructor of a fold algorithm that is handed a dimensions value
\* other than 2 or 3 ends by raising ValueError, with no residue positioned
\* and nothing in the grid
C13_InvalidDimensionsRaise ==
    (pc # "construct" /\ dimensions \notin {2, 3}) =>
        /\ pc = "ValueError"
        /\ position = FreshPosition(sequence)
        /\ grid = EmptyGrid

----------------------------------------------------------------------------
(* Protein.get_folding *)

\* get_folding(): the empty list for a chain of fewer than two residues,
\* otherwise one entry per residue with fold = dx + 2*dy + 3*dz of the step to
\* the next residue and fold = 0 for the last residue
get_folding(seq, pos) ==
    LET n == Len0(seq)
    IN  IF n < 2 THEN <<>>
        ELSE [k \in 1..n |->
                [amino |-> seq[k - 1],
                 fold |-> IF k = n THEN 0
                          ELSE LET difference == Sub(pos[k], pos[k - 1])
                               IN  difference[1] + 2 * difference[2] + 3 * difference[3]]]

\* the steps between consecutive residues of the chains get_folding is called
\* on: the unit moves, a diagonal and a double step
FoldingSteps ==
    {<<1, 0, 0>>, <<-1, 0, 0>>, <<0, 1, 0>>, <<0, -1, 0>>, <<0, 0, 1>>, <<0, 0, -1>>,
     <<1, 1, 0>>, <<2, 0, 0>>}

\* the chain that starts at first and takes the given steps
RECURSIVE ChainOfSteps(_, _, _)
ChainOfSteps(first, steps, i) ==
    IF i = 0 THEN first ELSE Add(ChainOfSteps(first, steps, i - 1), steps[i])

FoldingSequences ==
    UNION {[0..(n - 1) -> Types] : n \in 1..FoldingLen}

\* a chain with every residue positioned, get_folding() about to be called
InitGetFolding ==
    /\ IdleSpiral
    /\ IdleCalls
    /\ IdleRandom
    /\ IdleHill
    /\ IdleAnneal
    /\ IdleBfs
    /\ IdleBeam
    /\ IdleCtor
    /\ IdleCombos
    /\ sequence \in FoldingSequences
    /\ dimensions = 3
    /\ \E first \in {Origin, <<1, 0, 0>>} :
         \E steps \in [1..(Len0(sequence) - 1) -> FoldingSteps] :
            position = [i \in 0..(Len0(sequence) - 1) |-> ChainOfSteps(first, steps, i)]
    /\ grid = reset_grid(position)
    /\ pc = "get_folding"

GetFolding ==
    /\ pc = "get_folding"
    /\ returned' = get_folding(sequence, position)
    /\ pc' = "got_folding"
    /\ UNCHANGED <<protVars, randVars, _score, hillVars, annealVars, bfsVars, beamVars,
                   ctorVars, comboVars, spiralVars>>

NextGetFolding == GetFolding

SpecGetFolding == InitGetFolding /\ [][NextGetFolding]_vars

\* the unit move a fold code stands for: axis |code|, sign of code
CodeVector(code) ==
    CASE code = 1 -> <<1, 0, 0>>
      [] code = -1 -> <<-1, 0, 0>>
      [] code = 2 -> <<0, 1, 0>>
      [] code = -2 -> <<0, -1, 0>>
      [] code = 3 -> <<0, 0, 1>>
      [] code = -3 -> <<0, 0, -1>>

\* the position of residue i when the codes of folding are replayed from the origin
RECURSIVE Replayed(_, _)
Replayed(folding, i) ==
    IF i = 0 THEN Origin ELSE Add(Replayed(folding, i - 1), CodeVector(folding[i].fold))

\* C14: for a bond-adjacent chain with residue 0 at the origin, get_folding()
\* has one entry per residue, the code of every residue but the last is one of
\* 1, -1, 2, -2, 3, -3, the code of the last residue is 0, replaying the codes
\* from the origin gives every residue's position, and residues with the same
\* code make the same move
C14_FoldingCodesReplay ==
    (pc = "got_folding" /\ BondAdjacent(position) /\ position[0] = Origin) =>
        LET n == Len0(sequence)
        IN  /\ Len(returned) = n
            /\ \A k \in 1..(n - 1) : returned[k].fold \in {1, -1, 2, -2, 3, -3}
            /\ returned[n].fold = 0
            /\ \A i \in 0..(n - 1) : Replayed(returned, i) = position[i]
            /\ \A j, k \in 1..(n - 1) :
                 returned[j].fold = returned[k].fold =>
                    Sub(position[j], position[j - 1]) = Sub(position[k], position[k - 1])

----------------------------------------------------------------------------
(* Protein.get_score on chains folded step by step from the origin *)

\* sequences over the three types below the length bound, and the all-H
\* sequence at the bound
WalkSequences ==
    UNION {[0..(n - 1) -> Types] : n \in 1..(WalkLen - 1)}
        \cup {[i \in 0..(WalkLen - 1) |-> "H"]}

\* the chains of n residues that start at the origin and take one lattice step
\* per bond, self-intersecting ones included
WalkChains(n, dims) ==
    {[i \in 0..(n - 1) |-> ChainOfSteps(Origin, steps, i)] :
        steps \in [1..(n - 1) -> _get_directions(dims)]}

\* a chain folded in 2D or 3D, its grid not yet filled
InitWalkScore ==
    /\ IdleSpiral
    /\ IdleBeam
    /\ IdleCtor
    /\ IdleCombos
    /\ IdleCalls
    /\ IdleHill
    /\ IdleAnneal
    /\ IdleBfs
    /\ IdleRandom
    /\ sequence \in WalkSequences
    /\ dimensions \in {2, 3}
    /\ position \in WalkChains(Len0(sequence), dimensions)
    /\ grid = EmptyGrid
    /\ pc = "placed"

SpecWalkScore == InitWalkScore /\ [][NextScore]_vars

UnitSquare == [i \in 0..3 |-> CASE i = 0 -> <<0, 0, 0>>
                                [] i = 1 -> <<1, 0, 0>>
                                [] i = 2 -> <<1, 1, 0>>
                                [] i = 3 -> <<0, 1, 0>>]

\* C15: for the sequence HHHH in 2D the unit-square placement
\* (0,0),(1,0),(1,1),(0,1) has get_score() = -1, and no self-avoiding
\* bond-adjacent 2D placement of the sequence scores below -1
C15_SquareIsBestHHHH ==
    (/\ pc = "scored"
     /\ sequence = [i \in 0..3 |-> "H"]
     /\ dimensions = 2
     /\ Distinct(position)
     /\ BondAdjacent(position)) =>
        /\ returned >= -1
        /\ position = UnitSquare => returned = -1

\* HHHH scored on the unit square
C15_Witness ==
    /\ pc = "scored"
    /\ sequence = [i \in 0..3 |-> "H"]
    /\ dimensions = 2
    /\ position = UnitSquare
    /\ returned = -1

\* C16: for every sequence of length 3 over H, P, C and every self-avoiding
\* bond-adjacent placement of it in 2D or 3D, residues 0 and 2 are not
\* lattice-adjacent and get_score() is 0
C16_LengthThreeScoresZero ==
    (/\ pc = "scored"
     /\ Len0(sequence) = 3
     /\ Distinct(position)
     /\ BondAdjacent(position)) =>
        /\ Manhattan(position[0], position[2]) # 1
        /\ returned = 0

\* a bent three-residue chain of H and C in 3D, scored
C16_Witness ==
    /\ pc = "scored"
    /\ dimensions = 3
    /\ Len0(sequence) = 3
    /\ sequence[0] = "H"
    /\ sequence[2] = "C"
    /\ position[1] = <<0, 0, 1>>
    /\ position[2] = <<0, 1, 1>>
    /\ returned = 0

----------------------------------------------------------------------------
(* RandomFold.backtracking: the loop's bookkeeping *)

\* the grid a paired commit/undo discipline would hold at the top of the loop
PlacedGrid(pos, idx) ==
    [q \in {pos[i] : i \in {j \in DOMAIN pos : j < idx}} |->
        CHOOSE i \in DOMAIN pos : i < idx /\ pos[i] = q]

\* C17: at the start of every iteration of backtracking()'s main loop the grid
\* contains exactly the positions of the residues with index < acid_index,
\* each mapped to its own residue, and nothing else; in particular residue 0's
\* entry is there and no entry is left for a position no residue occupies
C17_GridMatchesPlaced ==
    (pc = "loop" /\ acid_index < Len0(sequence)) =>
        /\ grid = PlacedGrid(position, acid_index)
        /\ position[0] \in DOMAIN grid

\* the directions drawn for residues 1..7 of the long chain: left, up, up,
\* right, right, right, down
DeepDraws ==
    <<<<-1, 0, 0>>, <<0, 1, 0>>, <<0, 1, 0>>, <<1, 0, 0>>, <<1, 0, 0>>, <<1, 0, 0>>,
      <<0, -1, 0>>>>

\* backtracking(max_backtracking) called on a fresh chain long enough to run
\* into two dead ends in one attempt
InitRandomDeep ==
    /\ IdleSpiral
    /\ IdleBeam
    /\ IdleCtor
    /\ IdleCombos
    /\ IdleCalls
    /\ IdleHill
    /\ IdleAnneal
    /\ IdleBfs
    /\ sequence = [i \in 0..(DeepLen - 1) |-> "H"]
    /\ dimensions = 2
    /\ position = FreshPosition(sequence)
    /\ grid = EmptyGrid
    /\ pc = "start"
    /\ acid_index = 0
    /\ directions = {}
    /\ protein_path = <<>>
    /\ random_direction = None
    /\ backtrack_count = 0
    /\ max_backtracking = DeepMaxBacktracking

\* the advance branch with random.choice returning the listed draw for the
\* first residues and any direction for the others
RandomPlaceDrawn ==
    /\ RandomPlace
    /\ acid_index \in DOMAIN DeepDraws => random_direction' = DeepDraws[acid_index]

NextRandomDeep ==
    \/ RandomBegin
    \/ RandomPlaceDrawn
    \/ RandomBacktrack
    \/ RandomRestart
    \/ RandomReturn

SpecRandomDeep == InitRandomDeep /\ [][NextRandomDeep]_vars

\* C18: when the backtrack counter exceeds max_backtracking the attempt is
\* abandoned and folding restarts from the origin: as the new attempt begins
\* every residue's position is (0,0,0) and the grid holds nothing of the
\* abandoned attempt, so (the head entered) the state is that of a first
\* attempt on a fresh chain
C18_RestartIsFresh ==
    [][RandomRestart =>
          /\ position' = FreshPosition(sequence)
          /\ grid' = BacktrackingEntry(FreshPosition(sequence), EmptyGrid).grid
          /\ protein_path' = BacktrackingEntry(FreshPosition(sequence), EmptyGrid).protein_path
          /\ acid_index' = 1
          /\ backtrack_count' = 0]_vars

\* C19: whenever a direction is drawn for residue i >= 2 the direction list
\* does not contain the exact reversal of the move that led from residue i-2
\* to residue i-1, after a placement as well as after a backtrack step rebuilt
\* the list
C19_ReversalExcluded ==
    (pc = "loop" /\ acid_index >= 2 /\ acid_index < Len0(sequence)) =>
        Neg(Sub(position[acid_index - 1], position[acid_index - 2])) \notin directions

----------------------------------------------------------------------------
(* BfsFold.__valid_combinations *)

\* a call of __valid_combinations(keys, prev, length, it) with the alphabet of
\* the dimensions: the outermost call (prev None, it 0) or one of the calls it
\* makes on itself
InitCombos ==
    /\ IdleSpiral
    /\ IdleBeam
    /\ IdleCtor
    /\ IdleCalls
    /\ IdleRandom
    /\ IdleHill
    /\ IdleAnneal
    /\ IdleBfs
    /\ sequence = [i \in 0..0 |-> "H"]
    /\ dimensions \in {2, 3}
    /\ position = FreshPosition(sequence)
    /\ grid = EmptyGrid
    /\ pc = "combos"
    /\ vc_length \in 1..ComboLen
    /\ vc_it \in 0..vc_length
    /\ vc_prev \in (IF vc_it = 0 THEN {NoPrev} ELSE bfs_types(dimensions))

ValidCombinations ==
    /\ pc = "combos"
    /\ returned' = _valid_combinations(bfs_types(dimensions), vc_prev, vc_length, vc_it)
    /\ pc' = "combined"
    /\ UNCHANGED <<protVars, randVars, _score, hillVars, annealVars, bfsVars, beamVars,
                   ctorVars, comboVars, spiralVars>>

NextCombos == ValidCombinations

SpecCombos == InitCombos /\ [][NextCombos]_vars

\* the letter that undoes a letter
Opposite(letter) ==
    CASE letter = "R" -> "L"
      [] letter = "L" -> "R"
      [] letter = "U" -> "D"
      [] letter = "D" -> "U"
      [] letter = "F" -> "B"
      [] letter = "B" -> "F"

Alphabet(dims) == IF dims = 2 THEN {"R", "L", "U", "D"} ELSE {"R", "L", "U", "D", "F", "B"}

\* the strings of length n over the alphabet in which no letter is immediately
\* followed by its opposite
NoLetterUndone(dims, n) ==
    {s \in [1..n -> Alphabet(dims)] : \A i \in 1..(n - 1) : s[i + 1] # Opposite(s[i])}

RECURSIVE Power(_, _)
Power(b, e) == IF e = 0 THEN 1 ELSE b * Power(b, e - 1)

\* C20: for dimensions 2 and 3 and any length n >= 1 __valid_combinations
\* returns exactly the strings of length n over the alphabet in which no
\* letter is immediately followed by its opposite, none missing and none
\* extra: 4*3^(n-1) strings in 2D and 6*5^(n-1) in 3D
C20_ValidCombinationsExact ==
    (pc = "combined" /\ vc_it = 0 /\ vc_prev = NoPrev) =>
        /\ returned = NoLetterUndone(dimensions, vc_length)
        /\ Cardinality(returned) = (IF dimensions = 2 THEN 4 * Power(3, vc_length - 1)
                                    ELSE 6 * Power(5, vc_length - 1))

\* the 150 strings of length 3 in 3D, returned
C20_Witness ==
    /\ pc = "combined"
    /\ vc_it = 0
    /\ vc_prev = NoPrev
    /\ dimensions = 3
    /\ vc_length = 3
    /\ Cardinality(returned) = 150
    /\ <<"F", "U", "B">> \in returned

----------------------------------------------------------------------------
(* BfsFold.get_possible_foldings: self-avoidance of the reconnections *)

\* C21: no reconnection returned by get_possible_foldings visits a lattice
\* position twice: the positions in one returned residue list are pairwise
\* distinct
C21_ReconnectionsSelfAvoiding ==
    pc = "folded" => \A r \in returned : Distinct(r.acids)

----------------------------------------------------------------------------
(* BfsFold.__bfsfold: the beam between windows *)

\* C22: a round of the window loop hands to the next window exactly the set
\* of all candidates its score dict holds at the minimal score: every
\* tied-best candidate is carried forward, none is picked out before the last
\* window
C22_BeamKeepsAllTies ==
    [][BfsWindow =>
          /\ pc' = "window"
          /\ min_keys' = MinKeys(_create_dict(sequence, depth, min_keys).score_dict)]_vars

----------------------------------------------------------------------------
(* HillclimberFold: one refold step *)

RefoldSequences ==
    {[i \in 0..(n - 1) |-> "H"] : n \in MinSnippet..RefoldLen}

\* run() before its first iteration: the chain as RandomFold.run() leaves it
\* and the record, a deep copy of it
InitRefold ==
    /\ IdleSpiral
    /\ IdleBeam
    /\ IdleCtor
    /\ IdleCombos
    /\ IdleCalls
    /\ IdleAnneal
    /\ IdleBfs
    /\ IdleRandom
    /\ sequence \in RefoldSequences
    /\ dimensions \in {2, 3}
    /\ position \in RandomFoldRuns(Len0(sequence), dimensions)
    /\ grid = reset_grid(position)
    /\ pc = "refold"
    /\ iterations = 1
    /\ iteration = 0
    /\ hs_position = position
    /\ hs_grid = grid
    /\ hs_score = get_score(sequence, position, grid)
    /\ hs_alias = FALSE
    /\ snippet_start = 0
    /\ snippet_length = 0
    /\ changed_position = None
    /\ changed_grid = None
    /\ count = 0

\* _get_snippet, the deep copy and the first _fold_snippet call of
\* _run_experiment: the call works on the copy and, through the snippet list,
\* on the residues of the chain itself
RefoldStep ==
    /\ pc = "refold"
    /\ \E drawn \in MinSnippet..Len0(sequence) :
         LET length == Min(drawn, MaxSnippet)
         IN  \E start \in 0..(Len0(sequence) - length) :
               \E w \in RandomFoldRuns(length - 1, dimensions) :
                 LET call == _fold_snippet(w, reset_grid(w), position[start], start, length,
                                           position, grid, dimensions)
                 IN  /\ snippet_start' = start
                     /\ snippet_length' = length
                     /\ changed_position' = call.position
                     /\ changed_grid' = call.grid
                     /\ position' = SnippetAliased(position, start, length, call.snippet)
    /\ pc' = "refolded"
    /\ UNCHANGED <<sequence, dimensions, grid, randVars, callVars, iterations, iteration,
                   hs_position, hs_grid, hs_score, hs_alias, count, annealVars, bfsVars,
                   beamVars, ctorVars, comboVars, spiralVars>>

NextRefold == RefoldStep

SpecRefold == InitRefold /\ [][NextRefold]_vars

\* the residues a refold step is to hold fixed: the snippet's two end residues
\* (its anchors) and every residue that is not part of the snippet
HeldFixed ==
    {i \in DOMAIN sequence :
        i <= snippet_start \/ i >= snippet_start + snippet_length - 1}

\* C23: one refold step changes only the positions of residues strictly
\* inside the snippet: the two anchor residues at the snippet's ends and
\* every residue outside the snippet have, in the chain the step returns and
\* in the chain the step was given, the position they had before the step
C23_RefoldKeepsAnchors ==
    pc = "refolded" =>
        \A i \in HeldFixed :
            /\ changed_position[i] = hs_position[i]
            /\ position[i] = hs_position[i]

\* C24: an iteration of _run_experiment that finds no valid refold, or whose
\* candidate is not strictly better, returns the chain it was given, and the
\* positions and the grid of that chain and the recorded best are as they
\* were before the iteration
C24_RejectedIterationIsNoOp ==
    [][(pc = "iter" /\ iteration' = iteration + 1 /\ ~CandidateImproves(hs_score)) =>
          /\ pc' = "iter"
          /\ position' = position
          /\ grid' = grid
          /\ hs_position' = hs_position
          /\ hs_grid' = hs_grid
          /\ hs_score' = hs_score]_vars

----------------------------------------------------------------------------
(* AnnealingFold.run: the annealer it runs on *)

\* self._temperature = 10.0, the last but one statement of AnnealingFold.__init__
InitialTemperature == 10

\* an AnnealingFold constructor call with dimensions 2 or 3 has ended
AnnealerRequested ==
    /\ algorithm = "AnnealingFold"
    /\ DimensionsAccepted(dimensions)
    /\ pc # "construct"

\* C25: AnnealingFold.run() works in every iteration on a deep copy of the
\* recorded chain, keeps the recorded chain valid with its score equal to
\* _highscore[1], and returns the recorded chain; so the construction of the
\* annealer, as test_annealing makes it, ends with an object whose run() can
\* be called and nothing raised
C25_AnnealRunKeepsRecord ==
    AnnealerRequested => pc = "constructed"

\* C26: the temperature of AnnealingFold.run starts at 10 and is cooled once
\* per iteration down to the floor 1; so the annealer run() is called on
\* leaves its constructor with the temperature 10
C26_TemperatureStartsAtTen ==
    AnnealerRequested => temperature = InitialTemperature

----------------------------------------------------------------------------
(* HillclimberFold.run: termination *)

\* the for loop of run() moving on to its next iteration: the step that
\* counts one more experiment
ExperimentStep ==
    /\ pc = "iter"
    /\ iteration < iterations
    /\ Len0(sequence) >= MinSnippet
    /\ iteration' = iteration + 1

\* run() keeps executing once the initial fold exists: an iteration that can
\* be run is run, an exception that is due is raised, and the return
\* statement is reached when the loop is over
SpecHillFair ==
    /\ SpecHill
    /\ WF_iteration(ExperimentStep)
    /\ WF_vars(HillRaise)
    /\ WF_vars(HillReturn)

\* C27: once the initial fold exists run() performs exactly `iterations`
\* experiments, each with at most 51 refold attempts (one and at most 50
\* retries), and then returns a chain
C27_RunTerminates ==
    /\ [](pc = "returned" => iteration = iterations)
    /\ [](count <= MaxRetries)
    /\ (pc = "iter") ~> (pc = "returned")

----------------------------------------------------------------------------
(* SpiralFold *)

\* a spiral that turns left where the code turns right
C28_MovementsMirrored == <<<<0, 1, 0>>, <<-1, 0, 0>>, <<0, -1, 0>>, <<1, 0, 0>>>>

\* SpiralFold.movements; movement_index k selects movements[k + 1]
movements == <<<<0, 1, 0>>, <<1, 0, 0>>, <<0, -1, 0>>, <<-1, 0, 0>>>>

SpiralSequences ==
    {[i \in 0..(n - 1) |-> "H"] : n \in 1..SpiralLen}

\* SpiralFold(protein, dimensions) on a fresh chain: _steps starts at 1
InitSpiral ==
    /\ IdleBeam
    /\ IdleCtor
    /\ IdleCombos
    /\ IdleCalls
    /\ IdleRandom
    /\ IdleHill
    /\ IdleAnneal
    /\ IdleBfs
    /\ sequence \in SpiralSequences
    /\ dimensions \in {2, 3}
    /\ position = FreshPosition(sequence)
    /\ grid = EmptyGrid
    /\ pc = "start"
    /\ movement_index = 0
    /\ _steps = 1
    /\ sp_current = None

\* run() up to the while loop: the head enters the grid, current is head.link
SpiralBegin ==
    /\ pc = "start"
    /\ grid' = add_to_grid(grid, position[0], 0)
    /\ movement_index' = 0
    /\ sp_current' = IF 1 \in DOMAIN sequence THEN <<1>> ELSE None
    /\ pc' = "while"
    /\ UNCHANGED <<sequence, dimensions, position, _steps, randVars, callVars, hillVars,
                   annealVars, bfsVars, beamVars, ctorVars, comboVars>>

\* the for loop of run(): up to left residues from residue cur on are placed
\* one movement further than their predecessor; the loop breaks on the tail,
\* and current stays on it
RECURSIVE SpiralPlace(_, _, _, _, _)
SpiralPlace(pos, g, cur, index, left) ==
    IF left = 0
    THEN [position |-> pos, grid |-> g, current |-> cur]
    ELSE LET p == Add(pos[cur - 1], movements[index + 1])
             placed == [pos EXCEPT ![cur] = p]
             added == add_to_grid(g, p, cur)
         IN  IF cur + 1 \notin DOMAIN pos
             THEN [position |-> placed, grid |-> added, current |-> cur]
             ELSE SpiralPlace(placed, added, cur + 1, index, left - 1)

\* one iteration of the while loop: a run of _steps residues, then the turn;
\* is_valid() is False only while residues are left to place, so current is
\* a residue here
SpiralTurn ==
    /\ pc = "while"
    /\ ~is_valid(position, grid)
    /\ sp_current # None
    /\ LET run == SpiralPlace(position, grid, sp_current[1], movement_index, _steps)
           index == (movement_index + 1) % Len(movements)
       IN  /\ position' = run.position
           /\ grid' = run.grid
           /\ sp_current' = <<run.current>>
           /\ movement_index' = index
           /\ _steps' = _steps + (IF index % 2 = 0 THEN 1 ELSE 0)
    /\ UNCHANGED <<sequence, dimensions, pc, randVars, callVars, hillVars, annealVars, bfsVars,
                   beamVars, ctorVars, comboVars>>

\* the while loop ends on a valid chain and run() returns it; the check after
\* the loop repeats the loop's own condition and cannot raise
SpiralReturn ==
    /\ pc = "while"
    /\ is_valid(position, grid)
    /\ pc' = "returned"
    /\ UNCHANGED <<protVars, randVars, callVars, hillVars, annealVars, bfsVars, beamVars,
                   ctorVars, comboVars, spiralVars>>

NextSpiral ==
    \/ SpiralBegin
    \/ SpiralTurn
    \/ SpiralReturn

SpecSpiral == InitSpiral /\ [][NextSpiral]_vars

\* run() keeps executing: the next statement is taken whenever there is one
SpecSpiralFair == SpecSpiral /\ WF_vars(NextSpiral)

\* residues placed by the first k runs of a spiral with runs 1, 1, 2, 2, 3, 3
RECURSIVE RunSum(_)
RunSum(k) == IF k = 0 THEN 0 ELSE RunSum(k - 1) + ((k + 1) \div 2)

\* the run residue i >= 1 belongs to
RunOf(i) == CHOOSE k \in 1..i : RunSum(k - 1) < i /\ i <= RunSum(k)

\* runs needed for a chain of n residues
RunsNeeded(n) == IF n = 1 THEN 0 ELSE RunOf(n - 1)

\* the direction of run k: up, right, down, left, up, ...
RunDirection(k) ==
    CASE (k - 1) % 4 = 0 -> <<0, 1, 0>>
      [] (k - 1) % 4 = 1 -> <<1, 0, 0>>
      [] (k - 1) % 4 = 2 -> <<0, -1, 0>>
      [] (k - 1) % 4 = 3 -> <<-1, 0, 0>>

\* the cell of residue i in that spiral
RECURSIVE SpiralCell(_)
SpiralCell(i) == IF i = 0 THEN Origin ELSE Add(SpiralCell(i - 1), RunDirection(RunOf(i)))

SpiralReturned ==
    pc = "returned" =>
        /\ position[0] = Origin
        /\ Distinct(position)
        /\ BondAdjacent(position)
        /\ \A i \in DOMAIN position : position[i][3] = 0
        /\ \A i \in DOMAIN position : position[i] = SpiralCell(i)
        /\ movement_index = RunsNeeded(Len0(sequence)) % 4
        /\ _steps = 1 + (RunsNeeded(Len0(sequence)) \div 2)

\* C28: SpiralFold.run() terminates on every chain of at least one residue
\* and returns it with residue 0 at the origin, self-avoiding, bond-adjacent
\* and flat (z = 0), laid out in runs of 1, 1, 2, 2, 3, 3, ... residues going
\* up, right, down, left; the loop has made exactly the runs the chain needs
C28_SpiralTerminatesOnSpiral ==
    /\ []SpiralReturned
    /\ <>(pc = "returned")

\* a returned spiral that has gone round more than once, in 3D
C28_Witness ==
    /\ pc = "returned"
    /\ dimensions = 3
    /\ Len0(sequence) >= 12
    /\ _steps >= 4

----------------------------------------------------------------------------
(* Protein.reset_grid followed by is_valid *)

\* C29: a call of reset_grid() changes no residue position and leaves a grid
\* whose keys are exactly the positions the residues hold, so that is_valid()
\* called next is True exactly when the positions are pairwise distinct and
\* consecutive residues are lattice-adjacent; a second reset_grid() gives the
\* same grid again
C29_ResetGridMirrorsChain ==
    [][ProteinResetGrid =>
          /\ position' = position
          /\ DOMAIN grid' = {position'[i] : i \in DOMAIN position'}
          /\ \A q \in DOMAIN grid' : position'[grid'[q]] = q
          /\ is_valid(position', grid') <=> (Distinct(position') /\ BondAdjacent(position'))
          /\ reset_grid(position') = grid']_vars

\* a reset grid of three residues of which two overlap: one key fewer than
\* residues, and is_valid() is False
C29_Witness ==
    /\ Len0(position) = 3
    /\ grid = reset_grid(position)
    /\ BondAdjacent(position)
    /\ ~Distinct(position)
    /\ Cardinality(DOMAIN grid) = 2
    /\ ~is_valid(position, grid)

----------------------------------------------------------------------------
(* Protein.get_score on any chain and any grid *)

\* the lattice cells of these chains: the origin and its neighbours along x and y
StaleCells == {<<0, 0, 0>>, <<1, 0, 0>>, <<0, 1, 0>>}

StaleSequences ==
    UNION {[0..(n - 1) -> Types] : n \in 1..StaleLen}

\* a chain whose head is at the origin and whose other residues were given
\* any positions, overlapping or apart; the grid is still empty
InitStale ==
    /\ IdleSpiral
    /\ IdleBeam
    /\ IdleCtor
    /\ IdleCombos
    /\ IdleCalls
    /\ IdleHill
    /\ IdleAnneal
    /\ IdleBfs
    /\ IdleRandom
    /\ sequence \in StaleSequences
    /\ dimensions = 3
    /\ position \in {f \in [DOMAIN sequence -> StaleCells] : f[0] = Origin}
    /\ grid = EmptyGrid
    /\ pc = "placed"

\* protein.add_to_grid(p, acid), for any cell and residue
StaleAddToGrid ==
    /\ pc = "placed"
    /\ \E p \in StaleCells, acid \in DOMAIN position :
         grid' = add_to_grid(grid, p, acid)
    /\ UNCHANGED <<sequence, dimensions, position, pc, randVars, callVars, hillVars, annealVars, bfsVars,
                   beamVars, ctorVars, comboVars, spiralVars>>

\* protein.reset_grid()
StaleResetGrid ==
    /\ pc = "placed"
    /\ grid' = reset_grid(position)
    /\ UNCHANGED <<sequence, dimensions, position, pc, randVars, callVars, hillVars, annealVars, bfsVars,
                   beamVars, ctorVars, comboVars, spiralVars>>

\* protein.get_score(): _score is rebuilt from 0, its floored half is returned
StaleGetScore ==
    /\ pc = "placed"
    /\ _score' = ScoreFrom(sequence, position, grid, 0)
    /\ returned' = get_score(sequence, position, grid)
    /\ pc' = "scored"
    /\ UNCHANGED <<protVars, randVars, hillVars, annealVars, bfsVars, beamVars, ctorVars, comboVars, spiralVars>>

NextStale ==
    \/ StaleAddToGrid
    \/ StaleResetGrid
    \/ StaleGetScore

SpecStale == InitStale /\ [][NextStale]_vars

ScoreNeverPositive ==
    pc = "scored" =>
        /\ returned <= 0
        /\ (Distinct(position) /\ GridExact(position, grid)) =>
              /\ _score % 2 = 0
              /\ 2 * returned = _score

\* C30: get_score() never returns a positive value and changes no residue
\* position and no grid entry; when the grid mirrors pairwise distinct
\* positions the sum accumulated before the halving is even, so the floor
\* division by 2 is exact
C30_ScoreSignFrameParity ==
    /\ []ScoreNeverPositive
    /\ [][(pc = "placed" /\ pc' = "scored") => (position' = position /\ grid' = grid)]_vars

\* a scored chain of three distinct residues on a mirrored grid whose ends
\* are in contact: the sum is -2 and the score -1
C30_Witness ==
    /\ pc = "scored"
    /\ Len0(position) = 3
    /\ Distinct(position)
    /\ GridExact(position, grid)
    /\ _score = -2
    /\ returned = -1

====
